---- MODULE Spec2Model ----
(***************************************************************************)
(* A model of dsntnn (src/dsntnn/__init__.py): the normalized coordinate   *)
(* axis, the coordinate expectation / variance, dsnt, make_gauss and       *)
(* average_loss.                                                           *)
(*                                                                         *)
(* Numbers are exact rationals <<n, d>> (d > 0, lowest terms).  A tensor   *)
(* is a record [err, shape, data]: `shape` is the size tuple, `data` the   *)
(* elements in row-major order, and `err` names the exception raised while *)
(* computing it ("" when there is none).  Every tensor operation is the    *)
(* host library's operation of the same name, applied to that layout.      *)
(***************************************************************************)
EXTENDS Integers, Sequences, FiniteSets, TLC

VARIABLES call, ret

vars == <<call, ret>>

----------------------------------------------------------------------------
(* Bounds of the explored inputs.                                          *)

MaxLen == 3

MaxCells == 6

MaxGaussCells == 9

MaxRank == 3

MaxAxisLen == 128

MaxNdims == 2

MaxLosses == 4

\* 2^-TolLog2 < (10^6 - 1) * 1e-24: a normalized sum S / (S + 1e-24) is within
\* 1e-6 of 1 only if the unnormalized sum S is at least (10^6 - 1) * 1e-24.
TolLog2 == 60

----------------------------------------------------------------------------
(* Exact rational arithmetic.                                              *)

Abs(x) == IF x < 0 THEN -x ELSE x

RECURSIVE Gcd(_, _)
Gcd(a, b) == IF b = 0 THEN a ELSE Gcd(b, a % b)

Rat(n, d) ==
    LET s == IF d < 0 THEN -1 ELSE 1
        g == Gcd(Abs(n), Abs(d))
    IN  <<(s * n) \div g, (s * d) \div g>>

RInt(n) == <<n, 1>>

RAdd(a, b) == Rat(a[1] * b[2] + b[1] * a[2], a[2] * b[2])

RSub(a, b) == Rat(a[1] * b[2] - b[1] * a[2], a[2] * b[2])

RMul(a, b) == Rat(a[1] * b[1], a[2] * b[2])

RDiv(a, b) == Rat(a[1] * b[2], a[2] * b[1])

RNeg(a) == <<-a[1], a[2]>>

RLess(a, b) == a[1] * b[2] < b[1] * a[2]

RLeq(a, b) == a[1] * b[2] <= b[1] * a[2]

RMax(a, b) == IF RLess(a, b) THEN b ELSE a

RECURSIVE SumSeq(_)
SumSeq(s) == IF s = <<>> THEN RInt(0) ELSE RAdd(Head(s), SumSeq(Tail(s)))

----------------------------------------------------------------------------
(* Tensors: shapes, row-major indexing and the host operations used.       *)

RECURSIVE Prod(_)
Prod(s) == IF s = <<>> THEN 1 ELSE Head(s) * Prod(Tail(s))

Reverse(s) == [i \in 1..Len(s) |-> s[Len(s) + 1 - i]]

T(shape, data) == [err |-> "", shape |-> shape, data |-> data]

Fail(e) == [err |-> e, shape |-> <<>>, data |-> <<>>]

Ok(t) == t.err = ""

\* Python's None: no result yet, or no mask given.
None == [err |-> "None", shape |-> <<>>, data |-> <<>>]

Rank(t) == Len(t.shape)

Numel(t) == Prod(t.shape)

\* Python sequence indexing s[d] with a negative or non-negative index d.
PyIndex(s, d) == IF d < 0 THEN s[Len(s) + d + 1] ELSE s[d + 1]

Stride(shape, k) == Prod(SubSeq(shape, k + 1, Len(shape)))

\* The index tuple (0-based components) of the n-th element (0-based).
Unravel(shape, n) ==
    [k \in 1..Len(shape) |->
        IF shape[k] = 0 THEN 0 ELSE (n \div Stride(shape, k)) % shape[k]]

RECURSIVE RavelFrom(_, _, _)
RavelFrom(shape, idx, k) ==
    IF k > Len(shape) THEN 0
    ELSE idx[k] * Stride(shape, k) + RavelFrom(shape, idx, k + 1)

Ravel(shape, idx) == RavelFrom(shape, idx, 1)

At(t, idx) == t.data[Ravel(t.shape, idx) + 1]

\* tensor.view(*shp): same data, new shape; one entry of shp may be -1.
View(t, shp) ==
    IF ~Ok(t) THEN t
    ELSE LET holes == {k \in 1..Len(shp) : shp[k] = -1}
             known == Prod([k \in 1..Len(shp) |-> IF shp[k] = -1 THEN 1 ELSE shp[k]])
         IN  IF holes = {}
             THEN IF known = Numel(t) THEN T(shp, t.data) ELSE Fail("RuntimeError")
             ELSE IF Cardinality(holes) > 1 \/ known = 0 \/ Numel(t) % known # 0
                  THEN Fail("RuntimeError")
                  ELSE T([k \in 1..Len(shp) |->
                            IF shp[k] = -1 THEN Numel(t) \div known ELSE shp[k]],
                         t.data)

\* tensor.sum(d, keepdim): reduce axis d (negative: counted from the end).
SumDim(t, d, keepdim) ==
    IF ~Ok(t) THEN t
    ELSE LET r == Rank(t)
             p == IF d < 0 THEN d + r + 1 ELSE d + 1
             kept == [k \in 1..r |-> IF k = p THEN 1 ELSE t.shape[k]]
             n == Prod(kept)
             cell(m) ==
                 LET idx == Unravel(kept, m)
                 IN  SumSeq([j \in 1..t.shape[p] |->
                                At(t, [idx EXCEPT ![p] = j - 1])])
             data == [m \in 1..n |-> cell(m - 1)]
         IN  IF keepdim THEN T(kept, data)
             ELSE T(SubSeq(t.shape, 1, p - 1) \o SubSeq(t.shape, p + 1, r), data)

\* tensor.unsqueeze(d): insert an axis of length 1 at position d.
Unsqueeze(t, d) ==
    IF ~Ok(t) THEN t
    ELSE LET r == Rank(t)
             p == IF d < 0 THEN d + r + 1 ELSE d
         IN  T(SubSeq(t.shape, 1, p) \o <<1>> \o SubSeq(t.shape, p + 1, r), t.data)

\* Broadcasting of two shapes, aligned at their last axes.
PadShape(s, r) == [k \in 1..r |-> IF k <= r - Len(s) THEN 1 ELSE s[k - (r - Len(s))]]

MaxInt(a, b) == IF a < b THEN b ELSE a

Broadcastable(s1, s2) ==
    LET r == MaxInt(Len(s1), Len(s2))
        a == PadShape(s1, r)
        b == PadShape(s2, r)
    IN  \A k \in 1..r : a[k] = b[k] \/ a[k] = 1 \/ b[k] = 1

BroadcastShape(s1, s2) ==
    LET r == MaxInt(Len(s1), Len(s2))
        a == PadShape(s1, r)
        b == PadShape(s2, r)
    IN  [k \in 1..r |-> IF a[k] = 1 THEN b[k] ELSE a[k]]

\* The element of t that index idx of the broadcast shape reads.
BAt(t, idx) ==
    LET off == Len(idx) - Rank(t)
    IN  At(t, [k \in 1..Rank(t) |-> IF t.shape[k] = 1 THEN 0 ELSE idx[k + off]])

\* The arithmetic operation named op, on two numbers.
Apply2(op, x, y) ==
    IF op = "mul" THEN RMul(x, y)
    ELSE IF op = "sub" THEN RSub(x, y)
    ELSE RAdd(x, y)

\* An elementwise binary operation with broadcasting.
Elementwise(op, a, b) ==
    IF ~Ok(a) THEN a
    ELSE IF ~Ok(b) THEN b
    ELSE IF ~Broadcastable(a.shape, b.shape) THEN Fail("RuntimeError")
    ELSE LET shp == BroadcastShape(a.shape, b.shape)
         IN  T(shp, [m \in 1..Prod(shp) |->
                        LET idx == Unravel(shp, m - 1)
                        IN  Apply2(op, BAt(a, idx), BAt(b, idx))])

Mul(a, b) == Elementwise("mul", a, b)

Sub(a, b) == Elementwise("sub", a, b)

Add(a, b) == Elementwise("add", a, b)

Square(x) == RMul(x, x)

\* tensor ** 2.
Pow2(a) ==
    IF ~Ok(a) THEN a ELSE T(a.shape, [m \in 1..Len(a.data) |-> Square(a.data[m])])

\* tensor * k for a number k.
Scale(a, k) ==
    IF ~Ok(a) THEN a ELSE T(a.shape, [m \in 1..Len(a.data) |-> RMul(a.data[m], k)])

\* torch.stack(list, -1) of equally shaped tensors.
StackLast(ts) ==
    IF \E k \in 1..Len(ts) : ~Ok(ts[k])
    THEN ts[CHOOSE k \in 1..Len(ts) : ~Ok(ts[k]) /\ \A j \in 1..(k - 1) : Ok(ts[j])]
    ELSE IF \E k \in 1..Len(ts) : ts[k].shape # ts[1].shape THEN Fail("RuntimeError")
    ELSE LET n == Len(ts)
         IN  T(ts[1].shape \o <<n>>,
               [m \in 1..(n * Numel(ts[1])) |->
                   ts[((m - 1) % n) + 1].data[((m - 1) \div n) + 1]])

\* tensor.split(1, -1)[k]: the k-th (1-based) slice of length 1 of the last axis.
SplitLast(t, k) ==
    LET r == Rank(t)
        n == t.shape[r]
        shp == [t.shape EXCEPT ![r] = 1]
    IN  T(shp, [m \in 1..Prod(shp) |-> t.data[(m - 1) * n + k]])

\* torch.linspace(first, last, steps).
Linspace(first, last, steps) ==
    IF steps = 1 THEN T(<<1>>, <<first>>)
    ELSE LET step == RDiv(RSub(last, first), RInt(steps - 1))
         IN  T(<<steps>>, [i \in 1..steps |-> RAdd(first, RMul(RInt(i - 1), step))])

----------------------------------------------------------------------------
(* The program: src/dsntnn/__init__.py.                                    *)

\* A faulty variant of normalized_linspace: the end points -1 and 1 themselves.
normalized_linspace_endpoints(length) ==
    IF length = 0 THEN Fail("ZeroDivisionError")
    ELSE Linspace(RInt(-1), RInt(1), length)

\* A faulty variant of normalized_linspace: no division, an empty vector for length 0.
normalized_linspace_unchecked(length) ==
    IF length = 0 THEN T(<<0>>, <<>>)
    ELSE Linspace(RNeg(Rat(length - 1, length)), Rat(length - 1, length), length)

\* _normalized_linspace(length, type_as).  `-(length - 1) / length` divides
\* Python numbers (true division, as the docstring's example for length 4
\* shows), which raises ZeroDivisionError for length = 0; the cast _type_as
\* changes the element type only and keeps every exact value.
normalized_linspace(length) ==
    IF length = 0 THEN Fail("ZeroDivisionError")
    ELSE LET first == RNeg(Rat(length - 1, length))
             last == Rat(length - 1, length)
         IN  Linspace(first, last, length)

\* The transforms handed to _coord_expectation: None (the identity), an
\* elementwise square, and the closure `lambda x: (x - mu_x) ** 2` of
\* _coord_variance with the tensor mu_x it captured.
IdentityTransform == [kind |-> "identity"]

SquareTransform == [kind |-> "square"]

VarianceTransform(mu_x) == [kind |-> "sqdiff", mu |-> mu_x]

\* transform(own_coords), lines 76-77.
ApplyTransform(transform, own_coords) ==
    IF transform.kind = "square" THEN Pow2(own_coords)
    ELSE IF transform.kind = "sqdiff" THEN Pow2(Sub(own_coords, transform.mu))
    ELSE own_coords

\* The loop `for i in range(-ndims, 0): if i != dim: summed = summed.sum(i, keepdim=True)`.
RECURSIVE Marginalize(_, _, _)
Marginalize(summed, i, dim) ==
    IF i >= 0 THEN summed
    ELSE Marginalize(IF i # dim THEN SumDim(summed, i, TRUE) ELSE summed, i + 1, dim)

\* A faulty variant of coord_expectation: the result divided by the total mass.
coord_expectation_normalized(heatmaps, dim, ndims, transform) ==
    LET r == Rank(heatmaps)
        lin == normalized_linspace(PyIndex(heatmaps.shape, dim))
        own_coords == IF Ok(lin) THEN ApplyTransform(transform, lin) ELSE lin
        first_dims == SubSeq(heatmaps.shape, 1, r - ndims)
        hm_dims == SubSeq(heatmaps.shape, r - ndims + 1, r)
        summed0 == View(heatmaps, <<-1>> \o hm_dims)
        mass == View(Marginalize(summed0, -ndims, 0), <<-1>>)
        summed1 == Marginalize(summed0, -ndims, dim)
        summed2 == IF Ok(summed1) THEN View(summed1, <<summed1.shape[1], -1>>) ELSE summed1
        coords2 == IF Ok(own_coords)
                   THEN View(own_coords, <<-1, PyIndex(own_coords.shape, -1)>>)
                   ELSE own_coords
        total == SumDim(Mul(summed2, coords2), -1, FALSE)
        expectations ==
            IF Ok(total) /\ Ok(mass)
            THEN T(total.shape, [m \in 1..Len(total.data) |->
                     IF mass.data[m][1] = 0 THEN total.data[m]
                     ELSE RDiv(total.data[m], mass.data[m])])
            ELSE total
    IN  IF ~Ok(own_coords) THEN own_coords
        ELSE IF ~Ok(summed0) THEN summed0
        ELSE IF ~Ok(summed2) THEN summed2
        ELSE IF Len(first_dims) > 0 THEN View(expectations, first_dims)
        ELSE expectations

\* _coord_expectation(heatmaps, dim, ndims, transform).  The statements run
\* in order, so the first one that raises decides the error.
coord_expectation(heatmaps, dim, ndims, transform) ==
    LET r == Rank(heatmaps)
        dim_size == PyIndex(heatmaps.shape, dim)
        lin == normalized_linspace(dim_size)
        own_coords == IF Ok(lin) THEN ApplyTransform(transform, lin) ELSE lin
        first_dims == SubSeq(heatmaps.shape, 1, r - ndims)
        hm_dims == SubSeq(heatmaps.shape, r - ndims + 1, r)
        summed0 == View(heatmaps, <<-1>> \o hm_dims)
        summed1 == Marginalize(summed0, -ndims, dim)
        summed2 == IF Ok(summed1) THEN View(summed1, <<summed1.shape[1], -1>>) ELSE summed1
        coords2 == IF Ok(own_coords)
                   THEN View(own_coords, <<-1, PyIndex(own_coords.shape, -1)>>)
                   ELSE own_coords
        expectations == SumDim(Mul(summed2, coords2), -1, FALSE)
    IN  IF ~Ok(own_coords) THEN own_coords
        ELSE IF ~Ok(summed0) THEN summed0
        ELSE IF ~Ok(summed2) THEN summed2
        ELSE IF Len(first_dims) > 0 THEN View(expectations, first_dims)
        ELSE expectations

\* _coord_variance(heatmaps, dim, ndims): the transform closes over mu_x, a
\* tensor of the batch shape, and subtracts it from the coordinate vector
\* with the host's broadcasting.
coord_variance(heatmaps, dim, ndims) ==
    LET mu_x == coord_expectation(heatmaps, dim, ndims, IdentityTransform)
    IN  IF ~Ok(mu_x) THEN mu_x
        ELSE coord_expectation(heatmaps, dim, ndims, VarianceTransform(mu_x))

\* A faulty variant of dsnt: the axes taken outermost first.
dsnt_outermost_first(heatmaps, ndims) ==
    StackLast([k \in 1..ndims |-> coord_expectation(heatmaps, k - ndims - 1, ndims, IdentityTransform)])

\* dsnt(heatmaps, ndims): dim_range = -1, -2, ..., -ndims.
dsnt(heatmaps, ndims) ==
    LET dim_range == [k \in 1..ndims |-> -k]
    IN  StackLast([k \in 1..ndims |->
                     coord_expectation(heatmaps, dim_range[k], ndims, IdentityTransform)])

\* make_gauss, line 191: one coordinate axis per entry of `size`, last entry first.
gauss_coords_list(size) ==
    [k \in 1..Len(size) |-> normalized_linspace(Reverse(size)[k])]

\* A faulty variant of gauss_dists: the means taken in the order of `size`.
gauss_dists_same_order(coords_list, means) ==
    [k \in 1..Len(coords_list) |->
        Pow2(Sub(coords_list[k], SplitLast(means, Len(coords_list) + 1 - k)))]

\* make_gauss, line 196: dists <- (x - mean)^2, the k-th axis of coords_list
\* zipped with the k-th component of means.
gauss_dists(coords_list, means) ==
    [k \in 1..Len(coords_list) |->
        Pow2(Sub(coords_list[k], SplitLast(means, k)))]

\* A faulty variant of gauss_stddevs: the sizes taken in the order given.
gauss_stddevs_same_order(size, sigma) ==
    [k \in 1..Len(size) |-> RDiv(RMul(RInt(2), sigma), RInt(size[k]))]

\* make_gauss, line 199: stddevs = [2 * sigma / s for s in reversed(size)].
gauss_stddevs(size, sigma) ==
    [k \in 1..Len(size) |-> RDiv(RMul(RInt(2), sigma), RInt(Reverse(size)[k]))]

\* make_gauss, line 200: ks = [-0.5 * (1 / stddev) ** 2 for stddev in stddevs].
gauss_ks(stddevs) ==
    [k \in 1..Len(stddevs) |-> RMul(Rat(-1, 2), Square(RDiv(RInt(1), stddevs[k])))]

\* reduce(lambda t, d: t.unsqueeze(d), filter(lambda d: d != dim, dim_range), dist)
RECURSIVE UnsqueezeOthers(_, _, _, _)
UnsqueezeOthers(t, dim_range, j, dim) ==
    IF j > Len(dim_range) THEN t
    ELSE UnsqueezeOthers(IF dim_range[j] # dim THEN Unsqueeze(t, dim_range[j]) ELSE t,
                         dim_range, j + 1, dim)

\* reduce(mul, factors) of tensors that hold exponents: exp(a) * exp(b) = exp(a + b).
RECURSIVE ProductOfExps(_, _)
ProductOfExps(factors, acc) ==
    IF factors = <<>> THEN acc
    ELSE ProductOfExps(Tail(factors), Add(acc, Head(factors)))

\* make_gauss(means, size, sigma, normalize).  The result is kept on the
\* logarithmic scale: the tensor `data` holds, for every cell, the exponent e
\* of (dist * k).exp(), the product of the per-axis factors being the exp of
\* the sum of their exponents.  With normalized = FALSE the value of a cell
\* is exp(e); with normalized = TRUE it is exp(e) / (val_sum + 1e-24), val_sum
\* being the sum of exp(e) over the spatial axes of the cell's batch element.
make_gauss(means, size, sigma, normalize) ==
    LET n == Len(size)
        dim_range == [k \in 1..n |-> -k]
        coords_list == gauss_coords_list(size)
        dists == gauss_dists(coords_list, means)
        stddevs == gauss_stddevs(size, sigma)
        ks == gauss_ks(stddevs)
        exps == [k \in 1..n |-> Scale(dists[k], ks[k])]
        factors == [k \in 1..n |-> UnsqueezeOthers(exps[k], dim_range, 1, dim_range[k])]
        gauss == ProductOfExps(Tail(factors), Head(factors))
    IN  IF \E k \in 1..n : ~Ok(coords_list[k])
        THEN coords_list[CHOOSE k \in 1..n :
                            ~Ok(coords_list[k]) /\ \A j \in 1..(k - 1) : Ok(coords_list[j])]
        ELSE IF ~Ok(gauss) THEN gauss
        ELSE [err |-> "", shape |-> gauss.shape, data |-> gauss.data,
              normalized |-> normalize]

\* A faulty variant of average_loss: the denominator not clamped.
average_loss_unclamped(losses, mask) ==
    LET masked == IF mask # None THEN Mul(losses, mask) ELSE losses
        denom == IF mask # None THEN SumSeq(mask.data) ELSE RInt(Numel(losses))
    IN  IF ~Ok(masked) THEN masked
        ELSE IF denom = RInt(0) THEN Fail("nan")
        ELSE T(<<>>, <<RDiv(SumSeq(masked.data), denom)>>)

\* average_loss(losses, mask): denom is the Python int numel() clamped by
\* max(denom, 1), or the tensor mask.sum() clamped by clamp(1).
average_loss(losses, mask) ==
    LET masked == IF mask # None THEN Mul(losses, mask) ELSE losses
        denom == IF mask # None THEN SumSeq(mask.data) ELSE RInt(Numel(losses))
        clamped == RMax(denom, RInt(1))
    IN  IF ~Ok(masked) THEN masked
        ELSE T(<<>>, <<RDiv(SumSeq(masked.data), clamped)>>)

----------------------------------------------------------------------------
(* The inputs of the calls.                                                *)

\* Tensor sizes of rank r: every axis length 0..MaxLen, at most MaxCells elements.
ShapesOfRank(r) == {s \in [1..r -> 0..MaxLen] : Prod(s) <= MaxCells}

\* A batch of two grids of 2 x 2 cells, beside the sizes of at most MaxCells elements.
BatchOfGrids == {<<2, 2, 2>>}

Shapes == UNION {ShapesOfRank(r) : r \in 1..MaxRank} \cup BatchOfGrids

\* The masses a cell may hold.
Masses == {RInt(0), Rat(1, 2), RInt(1)}

\* The batch shape and the grid shape of a heatmap size.
BatchShape(shape, ndims) == SubSeq(shape, 1, Len(shape) - ndims)

GridShape(shape, ndims) == SubSeq(shape, Len(shape) - ndims + 1, Len(shape))

\* The heatmap whose batch element b has all its mass on grid cell hot[b].
OneHot(shape, ndims, hot) ==
    LET g == Prod(GridShape(shape, ndims))
    IN  T(shape, [m \in 1..Prod(shape) |->
                    IF (m - 1) % g = hot[((m - 1) \div g) + 1] THEN RInt(1) ELSE RInt(0)])

\* The heatmaps of a shape whose batch elements each carry a mass of at most
\* 1 (exactly 1: a probability distribution; less: an unnormalized input).
HeatmapsOfShape(s, ndims) ==
    LET g == Prod(GridShape(s, ndims))
        b == Prod(BatchShape(s, ndims))
        mass(d, e) == SumSeq([c \in 1..g |-> d[(e - 1) * g + c]])
    IN  {T(s, d) : d \in {x \in [1..Prod(s) -> Masses] :
                             \A e \in 1..b : RLeq(mass(x, e), RInt(1))}}

OneHotsOfShape(s, ndims) ==
    LET b == Prod(BatchShape(s, ndims))
        g == Prod(GridShape(s, ndims))
    IN  IF Prod(s) = 0 THEN {T(s, <<>>)}
        ELSE {OneHot(s, ndims, hot) : hot \in [1..b -> 0..(g - 1)]}

\* The grid sizes handed to make_gauss: 1..MaxNdims axes of length 0..MaxLen,
\* at most MaxGaussCells cells.
Sizes == UNION {{s \in [1..n -> 0..MaxLen] : Prod(s) <= MaxGaussCells} : n \in 1..MaxNdims}

\* Mean components: on cell centres, between them, on the border and far outside.
MeanVals == {RInt(-1), Rat(-1, 2), RInt(0), Rat(1, 3), RInt(12)}

BatchMeanVals == {Rat(-1, 2), RInt(12)}

\* The means for a grid of n axes: one vector, or a batch of two.
MeansFor(n) ==
    {T(<<n>>, d) : d \in [1..n -> MeanVals]}
        \cup {T(<<2, n>>, d) : d \in [1..(2 * n) -> BatchMeanVals]}

SigmaVals == {Rat(1, 2), RInt(1)}

LossVals == {RInt(-1), RInt(0), Rat(1, 2), RInt(2)}

LossArrays == UNION {{T(<<n>>, d) : d \in [1..n -> LossVals]} : n \in 0..MaxLosses}

MasksFor(losses) ==
    {None} \cup {T(losses.shape, d) : d \in [1..Len(losses.data) -> {RInt(0), RInt(1)}]}

Transforms == {IdentityTransform, SquareTransform}

----------------------------------------------------------------------------
(* The state machine: one action per entry point, each a whole call.  The  *)
(* module keeps no state between calls: `call` is the call in progress     *)
(* and `ret` what it returns (or the exception it raises) to the caller,   *)
(* and the next call starts after the caller has taken the result.         *)

Idle == call.op = "import"

Init ==
    /\ call = [op |-> "import"]
    /\ ret = None

CallNormalizedLinspace ==
    /\ Idle
    /\ \E length \in 0..MaxAxisLen :
        /\ call' = [op |-> "normalized_linspace", length |-> length]
        /\ ret' = normalized_linspace(length)

CallCoordExpectation ==
    /\ Idle
    /\ \E s \in Shapes : \E ndims \in 1..Len(s) : \E h \in HeatmapsOfShape(s, ndims) :
       \E dim \in (-ndims)..(-1) : \E tr \in Transforms :
        /\ call' = [op |-> "coord_expectation", heatmaps |-> h, dim |-> dim,
                    ndims |-> ndims, transform |-> tr]
        /\ ret' = coord_expectation(h, dim, ndims, tr)

CallCoordVariance ==
    /\ Idle
    /\ \E s \in Shapes : \E ndims \in 1..Len(s) : \E h \in HeatmapsOfShape(s, ndims) :
       \E dim \in (-ndims)..(-1) :
        /\ call' = [op |-> "coord_variance", heatmaps |-> h, dim |-> dim, ndims |-> ndims]
        /\ ret' = coord_variance(h, dim, ndims)

CallDsnt ==
    /\ Idle
    /\ \E s \in Shapes : \E ndims \in 1..Len(s) : \E h \in OneHotsOfShape(s, ndims) :
        /\ call' = [op |-> "dsnt", heatmaps |-> h, ndims |-> ndims]
        /\ ret' = dsnt(h, ndims)

Return ==
    /\ ~Idle
    /\ call' = [op |-> "import"]
    /\ ret' = None

CallMakeGauss ==
    /\ Idle
    /\ \E size \in Sizes : \E means \in MeansFor(Len(size)) :
       \E sigma \in SigmaVals : \E normalize \in BOOLEAN :
        /\ call' = [op |-> "make_gauss", means |-> means, size |-> size,
                    sigma |-> sigma, normalize |-> normalize]
        /\ ret' = make_gauss(means, size, sigma, normalize)

CallAverageLoss ==
    /\ Idle
    /\ \E losses \in LossArrays : \E mask \in MasksFor(losses) :
        /\ call' = [op |-> "average_loss", losses |-> losses, mask |-> mask]
        /\ ret' = average_loss(losses, mask)

AxisNext == CallNormalizedLinspace \/ Return

SpecAxis == Init /\ [][AxisNext]_vars

DsntNext == CallCoordExpectation \/ CallCoordVariance \/ CallDsnt \/ Return

SpecDsnt == Init /\ [][DsntNext]_vars

GaussNext == CallMakeGauss \/ Return

SpecGauss == Init /\ [][GaussNext]_vars

RejectNext == CallNormalizedLinspace \/ CallMakeGauss \/ CallDsnt \/ Return

SpecReject == Init /\ [][RejectNext]_vars

LossNext == CallAverageLoss \/ Return

SpecLoss == Init /\ [][LossNext]_vars

Next ==
    \/ CallNormalizedLinspace
    \/ CallCoordExpectation
    \/ CallCoordVariance
    \/ CallDsnt
    \/ CallMakeGauss
    \/ CallAverageLoss
    \/ Return

Spec == Init /\ [][Next]_vars

----------------------------------------------------------------------------
(* What the claims speak of.                                               *)

\* The centre of cell i (0-based) of an axis of `length` cells.
CellCentre(length, i) == RAdd(RNeg(Rat(length - 1, length)), Rat(2 * i, length))

Positive(shape) == \A k \in 1..Len(shape) : shape[k] > 0

BatchCount(h, ndims) == Prod(BatchShape(h.shape, ndims))

GridCount(h, ndims) == Prod(GridShape(h.shape, ndims))

\* The mass of grid cell g (0-based, row-major) of batch element b (0-based).
MassAt(h, ndims, b, g) == h.data[b * GridCount(h, ndims) + g + 1]

\* The coordinate of grid cell g along spatial axis dim (negative index).
CoordAt(h, ndims, dim, g) ==
    LET grid == GridShape(h.shape, ndims)
        axis == ndims + dim + 1
    IN  CellCentre(grid[axis], Unravel(grid, g)[axis])

\* A valid heatmap: the mass of every batch element is exactly 1.
IsValidHeatmap(h, ndims) ==
    /\ Positive(h.shape)
    /\ \A b \in 0..(BatchCount(h, ndims) - 1) :
         SumSeq([g \in 1..GridCount(h, ndims) |-> MassAt(h, ndims, b, g - 1)]) = RInt(1)

IsOneHotBatch(h, ndims) ==
    /\ Prod(h.shape) > 0
    /\ \A b \in 0..(BatchCount(h, ndims) - 1) :
         /\ \A g \in 0..(GridCount(h, ndims) - 1) : MassAt(h, ndims, b, g) \in {RInt(0), RInt(1)}
         /\ Cardinality({g \in 0..(GridCount(h, ndims) - 1) :
                            MassAt(h, ndims, b, g) = RInt(1)}) = 1

HotCell(h, ndims, b) ==
    CHOOSE g \in 0..(GridCount(h, ndims) - 1) : MassAt(h, ndims, b, g) = RInt(1)

\* f(x) for f the identity, the square, or x -> (x - mu)^2.
ValueOf(kind, mu, x) ==
    IF kind = "square" THEN RMul(x, x)
    ELSE IF kind = "sqdiff" THEN Square(RSub(x, mu))
    ELSE x

\* E_b[f(X)] along axis dim under the mass of batch element b, not normalized.
Expectation(h, ndims, dim, b, kind, mu) ==
    SumSeq([g \in 1..GridCount(h, ndims) |->
              RMul(MassAt(h, ndims, b, g - 1),
                   ValueOf(kind, mu, CoordAt(h, ndims, dim, g - 1)))])

\* C3: for every length >= 1, _normalized_linspace returns exactly `length`
\* values, cell i being -(length-1)/length + i*2/length; the sequence is
\* symmetric about 0, strictly increasing, starts at -(length-1)/length, ends
\* at +(length-1)/length, and every value lies strictly inside (-1, 1).
C3_NormalizedAxis ==
    (call.op = "normalized_linspace" /\ call.length >= 1) =>
        LET n == call.length
        IN  /\ Ok(ret)
            /\ ret.shape = <<n>>
            /\ Len(ret.data) = n
            /\ \A i \in 0..(n - 1) : ret.data[i + 1] = CellCentre(n, i)
            /\ \A i \in 1..n : ret.data[i] = RNeg(ret.data[n + 1 - i])
            /\ \A i \in 1..(n - 1) : RLess(ret.data[i], ret.data[i + 1])
            /\ ret.data[1] = RNeg(Rat(n - 1, n))
            /\ ret.data[n] = Rat(n - 1, n)
            /\ \A i \in 1..n : RLess(RInt(-1), ret.data[i]) /\ RLess(ret.data[i], RInt(1))

C3_Witness ==
    /\ call.op = "normalized_linspace"
    /\ call.length = 4
    /\ ret.data = <<Rat(-3, 4), Rat(-1, 4), Rat(1, 4), Rat(3, 4)>>

\* C1: dsnt of a one-hot heatmap returns, for every batch element, exactly
\* the cell-centre coordinates of its hot cell, component k (0-based) being
\* the coordinate along spatial axis -(k+1).
C1_DsntOneHot ==
    (call.op = "dsnt" /\ IsOneHotBatch(call.heatmaps, call.ndims)) =>
        LET h == call.heatmaps
            n == call.ndims
        IN  /\ Ok(ret)
            /\ Len(ret.data) = BatchCount(h, n) * n
            /\ \A b \in 0..(BatchCount(h, n) - 1) : \A k \in 0..(n - 1) :
                 ret.data[b * n + k + 1] = CoordAt(h, n, -(k + 1), HotCell(h, n, b))

C1_Witness ==
    /\ call.op = "dsnt"
    /\ call.ndims = 2
    /\ call.heatmaps = T(<<2, 3>>, <<RInt(0), RInt(0), RInt(1), RInt(0), RInt(0), RInt(0)>>)
    /\ ret.data = <<Rat(2, 3), Rat(-1, 2)>>

\* The values C9 states: one per batch element, the sum over its grid of
\* mass times the transformed coordinate along the target axis.
C9_Values ==
    LET h == call.heatmaps
        n == call.ndims
    IN  /\ Len(ret.data) = BatchCount(h, n)
        /\ \A b \in 0..(BatchCount(h, n) - 1) :
             ret.data[b + 1] =
                 Expectation(h, n, call.dim, b, call.transform.kind, RInt(0))

C10_VarianceOwnMean ==
    (call.op = "coord_variance" /\ IsValidHeatmap(call.heatmaps, call.ndims)) =>
        LET h == call.heatmaps
            n == call.ndims
            mu(b) == Expectation(h, n, call.dim, b, "identity", RInt(0))
        IN  /\ Ok(ret)
            /\ Len(ret.data) = BatchCount(h, n)
            /\ \A b \in 0..(BatchCount(h, n) - 1) :
                 ret.data[b + 1] =
                     Expectation(h, n, call.dim, b, "sqdiff", mu(b))

\* The means and cells of a make_gauss call: batch element b, cell c (0-based).
GaussBatchCount(means) == Prod(SubSeq(means.shape, 1, Rank(means) - 1))

MeanAt(means, b, k) == means.data[b * means.shape[Rank(means)] + k + 1]

\* The exponent C2 states for cell c of batch element b: mean component k
\* (0-based) centres the Gaussian along axis -(k+1), over the cell centres of
\* an axis of size[-(k+1)] cells, with sigma_axis = 2*sigma/size[-(k+1)].
StatedExponent(means, size, sigma, b, c) ==
    LET n == Len(size)
        idx == Unravel(size, c)
        term(k) ==
            LET len == size[n - k]
                x == CellCentre(len, idx[n - k])
                sigma_axis == RDiv(RMul(RInt(2), sigma), RInt(len))
            IN  RNeg(RDiv(Square(RSub(x, MeanAt(means, b, k))),
                          RMul(RInt(2), Square(sigma_axis))))
    IN  SumSeq([k \in 1..n |-> term(k - 1)])

\* The exponents of the cells of batch element b of a returned Gaussian.
ExponentsOf(g, size, b) == [c \in 1..Prod(size) |-> g.data[b * Prod(size) + c]]

RECURSIVE MaxOf(_)
MaxOf(es) == IF Len(es) = 1 THEN es[1] ELSE RMax(es[1], MaxOf(Tail(es)))

\* Every mean component of batch element b lies on a cell centre of its axis.
MeanOnCellCentre(means, size, b) ==
    \A k \in 0..(Len(size) - 1) :
        \E i \in 0..(size[Len(size) - k] - 1) :
            CellCentre(size[Len(size) - k], i) = MeanAt(means, b, k)

\* C2: for every size and every mean vector, the trailing axes of the output
\* have the lengths of `size` in the given order, and mean component k centres
\* the 1D Gaussian along output axis -(k+1), over that axis's cell centres and
\* with sigma_axis = 2*sigma/size[-(k+1)].
C2_ReversedOrder ==
    (call.op = "make_gauss" /\ Positive(call.size)) =>
        LET batch == SubSeq(call.means.shape, 1, Rank(call.means) - 1)
        IN  /\ Ok(ret)
            /\ ret.shape = batch \o call.size
            /\ Len(ret.data) = Prod(batch) * Prod(call.size)
            /\ \A b \in 0..(Prod(batch) - 1) : \A c \in 0..(Prod(call.size) - 1) :
                 ret.data[b * Prod(call.size) + c + 1] =
                     StatedExponent(call.means, call.size, call.sigma, b, c)

C2_Witness ==
    /\ call.op = "make_gauss"
    /\ call.size = <<2, 3>>
    /\ call.means = T(<<2>>, <<Rat(1, 3), Rat(-1, 2)>>)
    /\ call.sigma = RInt(1)
    /\ ret.shape = <<2, 3>>
    /\ ret.data[3] = Rat(-1, 8)
    /\ ret.data[4] = Rat(-13, 8)

\* C5 as stated: with normalize=False the maximum of the returned array is
\* exactly 1.0 (the largest exponent is 0) for any mean, size and sigma > 0.
C5_UnnormalizedMaxIsOne ==
    (call.op = "make_gauss" /\ ~call.normalize /\ Positive(call.size)) =>
        /\ Ok(ret)
        /\ \A b \in 0..(GaussBatchCount(call.means) - 1) :
             MaxOf(ExponentsOf(ret, call.size, b)) = RInt(0)

\* C5 amended: with normalize=False no value exceeds 1.0, and the maximum is
\* exactly 1.0 if and only if every mean component lies on a cell centre of
\* its axis.
C5_MaxIsOneOnCellCentre ==
    (call.op = "make_gauss" /\ ~call.normalize /\ Positive(call.size)) =>
        /\ Ok(ret)
        /\ \A b \in 0..(GaussBatchCount(call.means) - 1) :
             /\ RLeq(MaxOf(ExponentsOf(ret, call.size, b)), RInt(0))
             /\ MaxOf(ExponentsOf(ret, call.size, b)) = RInt(0)
                    <=> MeanOnCellCentre(call.means, call.size, b)

C5_Witness ==
    /\ call.op = "make_gauss"
    /\ ~call.normalize
    /\ call.size = <<3, 3>>
    /\ call.means = T(<<2>>, <<RInt(0), RInt(0)>>)
    /\ call.sigma = RInt(1)
    /\ ret.data[5] = RInt(0)
    /\ MaxOf(ExponentsOf(ret, call.size, 0)) = RInt(0)

\* The least j with 2^j >= n.
RECURSIVE Log2Ceil(_)
Log2Ceil(n) == IF n <= 1 THEN 0 ELSE 1 + Log2Ceil((n + 1) \div 2)

\* Every cell of batch element b has an exponent of at most -m, so (e > 2) a
\* value of at most 2^-m, and the cells sum to at most 2^(Log2Ceil(cells) - m):
\* below 2^-TolLog2 the normalized sum S / (S + 1e-24) is further than 1e-6
\* from 1.
MassBelowTolerance(g, size, b) ==
    LET top == MaxOf(ExponentsOf(g, size, b))
        m == (-top[1]) \div top[2]
    IN  m - Log2Ceil(Prod(size)) >= TolLog2

\* C4: a normalized Gaussian sums to 1 within 1e-6 over its spatial axes for
\* any mean, sigma > 0 and size, means far from every grid cell included.
C4_NormalizedSumsToOne ==
    (call.op = "make_gauss" /\ call.normalize /\ Positive(call.size)) =>
        /\ Ok(ret)
        /\ \A b \in 0..(GaussBatchCount(call.means) - 1) :
             ~MassBelowTolerance(ret, call.size, b)

\* C6: average_loss never divides by zero: with a mask it returns
\* sum(losses*mask) / max(sum(mask), 1), so an all-ones mask gives the plain
\* mean and an all-zero mask gives exactly 0; without a mask it divides the
\* sum by the element count.
C6_AverageLoss ==
    (call.op = "average_loss") =>
        LET losses == call.losses
            mask == call.mask
            n == Len(losses.data)
            total == SumSeq(losses.data)
            picked == SumSeq([i \in 1..n |-> RMul(losses.data[i], mask.data[i])])
        IN  /\ Ok(ret)
            /\ Len(ret.data) = 1
            /\ mask = None /\ n > 0 => ret.data[1] = RDiv(total, RInt(n))
            /\ mask = None /\ n = 0 => ret.data[1] = RInt(0)
            /\ mask # None =>
                 /\ ret.data[1] = RDiv(picked, RMax(SumSeq(mask.data), RInt(1)))
                 /\ (\A i \in 1..n : mask.data[i] = RInt(1)) =>
                        ret.data[1] = RDiv(total, RInt(MaxInt(n, 1)))
                 /\ (\A i \in 1..n : mask.data[i] = RInt(0)) => ret.data[1] = RInt(0)

C6_Witness ==
    /\ call.op = "average_loss"
    /\ call.losses = T(<<3>>, <<RInt(2), Rat(1, 2), RInt(-1)>>)
    /\ call.mask = T(<<3>>, <<RInt(0), RInt(0), RInt(0)>>)
    /\ ret = T(<<>>, <<RInt(0)>>)

====
